---- MODULE Spec2Model ----
(***************************************************************************)
(* Model of the VICAL parser (src/src/parser.ts): the decode-and-validate  *)
(* pipeline parseVICAL and the query functions built on a parsed list.     *)
(*                                                                         *)
(* Decoded CBOR values are JavaScript values.  A value is a record whose   *)
(* field k names its kind; the other fields depend on the kind, so two     *)
(* values with the same field names always have fields of the same type.   *)
(* The generic decoder (cbor-x) is external: a byte string carries, in its *)
(* field dec, what decode() returns for it.                                *)
(***************************************************************************)
EXTENDS Integers, Sequences, FiniteSets, TLC

VARIABLES vicalBytes, pc, result, q

vars == <<vicalBytes, pc, result, q>>

(***************************************************************************)
(* Program constants.                                                      *)
(***************************************************************************)
COSE_SIGN1_TAG == 18

COSE_HEADER == [ALG |-> 1, KID |-> 4, X5CHAIN |-> 33]

COSE_ALG == [ES256 |-> -7, ES384 |-> -35, ES512 |-> -36, EdDSA |-> -8]

MDL_DOCTYPE == "org.iso.18013.5.1.mDL"

(***************************************************************************)
(* JavaScript values.                                                      *)
(***************************************************************************)
Undefined == [k |-> "undefined"]

Null == [k |-> "null"]

Bool(t) == [k |-> "boolean", t |-> t]

Num(n) == [k |-> "number", n |-> n]

\* the number NaN (every other number of the model is an integer)
NaN == [k |-> "NaN"]

\* a natural number in groups of four decimal digits, most significant first
RECURSIVE Limbs(_)
Limbs(n) == IF n < 10000 THEN <<n>> ELSE Append(Limbs(n \div 10000), n % 10000)

\* a BigInt of any width: a sign and the four-digit groups of its magnitude
BigInt(neg, mag) == [k |-> "bigint", neg |-> neg, mag |-> mag]

\* BigInt(n) / the literal <n>n for a machine integer n
Big(n) == BigInt(n < 0, Limbs(IF n < 0 THEN -n ELSE n))

Str(s) == [k |-> "string", s |-> s]

Arr(items) == [k |-> "array", items |-> items]

\* a plain object: a sequence of <<property name, value>> pairs
Obj(ent) == [k |-> "object", props |-> ent]

\* a native Map: a sequence of <<key value, value>> pairs in insertion order
MapV(ent) == [k |-> "map", ent |-> ent]

\* a native Date holding t milliseconds since the epoch (or an invalid date)
DateV(t) == [k |-> "date", valid |-> TRUE, t |-> t]

InvalidDate == [k |-> "date", valid |-> FALSE, t |-> 0]

\* the decoder's Tag instance: an object with the properties value and tag
TagV(tag, value) == [k |-> "tag", tag |-> tag, value |-> value]

\* what decode() does with a byte string: a value, or an exception
Decoded(v) == [ok |-> TRUE, val |-> v]

DecodeError == [ok |-> FALSE, val |-> Undefined]

Buffer(b, dec) == [k |-> "buffer", b |-> b, dec |-> dec]

Uint8Array(b, dec) == [k |-> "u8", b |-> b, dec |-> dec]

\* Buffer.isBuffer(v) || v instanceof Uint8Array
IsByteLike(v) == v.k \in {"buffer", "u8"}

\* Buffer.from(v): a Buffer holding the same bytes
BufferFrom(v) == [v EXCEPT !.k = "buffer"]

(***************************************************************************)
(* Outcomes of a call: a returned value or a thrown exception.             *)
(***************************************************************************)
Ok(v) == [st |-> "ok", val |-> v]

Throw(name, message) == [st |-> "throw", name |-> name, message |-> message]

VICALParseError(message) == Throw("VICALParseError", message)

IsOk(r) == r.st = "ok"

IsThrow(r) == r.st = "throw"

IsParseError(r) == r.st = "throw" /\ r.name = "VICALParseError"

\* mutant: every statement is run and the last exception is the one reported
LastThrow(steps) ==
  LET bad == {i \in DOMAIN steps : IsThrow(steps[i])}
  IN  steps[CHOOSE i \in bad : \A j \in bad : j <= i]

\* the outcome of statements run in order: the first exception, if any
FirstThrow(steps) ==
  LET bad == {i \in DOMAIN steps : IsThrow(steps[i])}
  IN  steps[CHOOSE i \in bad : \A j \in bad : i <= j]

AllOk(steps) == \A i \in DOMAIN steps : IsOk(steps[i])

(***************************************************************************)
(* JavaScript primitives the parser relies on.                             *)
(***************************************************************************)
TypeOf(v) ==
  CASE v.k = "undefined" -> "undefined"
    [] v.k = "boolean"   -> "boolean"
    [] v.k = "number"    -> "number"
    [] v.k = "NaN"       -> "number"
    [] v.k = "bigint"    -> "bigint"
    [] v.k = "string"    -> "string"
    [] OTHER             -> "object"

\* truthiness, as tested by `!x`, `x || y` and `if (x)`
ToBoolean(v) ==
  CASE v.k \in {"undefined", "null", "NaN"} -> FALSE
    [] v.k = "boolean" -> v.t
    [] v.k = "number"  -> v.n # 0
    [] v.k = "bigint"  -> v.mag # <<0>>
    [] v.k = "string"  -> v.s # ""
    [] OTHER           -> TRUE

DigitStr(d) ==
  CASE d = 0 -> "0" [] d = 1 -> "1" [] d = 2 -> "2" [] d = 3 -> "3"
    [] d = 4 -> "4" [] d = 5 -> "5" [] d = 6 -> "6" [] d = 7 -> "7"
    [] d = 8 -> "8" [] d = 9 -> "9"

RECURSIVE NatToStr(_)
NatToStr(n) ==
  IF n < 10 THEN DigitStr(n) ELSE NatToStr(n \div 10) \o DigitStr(n % 10)

IntToStr(n) == IF n < 0 THEN "-" \o NatToStr(-n) ELSE NatToStr(n)

\* the decimal digits of four-digit groups, every group but the first padded
RECURSIVE LimbsToStr(_, _)
LimbsToStr(mag, first) ==
  IF mag = <<>> THEN ""
  ELSE LET g == Head(mag)
           pad == IF first \/ g >= 1000 THEN ""
                  ELSE IF g >= 100 THEN "0" ELSE IF g >= 10 THEN "00" ELSE "000"
       IN  pad \o NatToStr(g) \o LimbsToStr(Tail(mag), FALSE)

\* String(v), for the kinds of value the model feeds to it
RECURSIVE String(_)
RECURSIVE JoinItems(_)
String(v) ==
  CASE v.k = "string"    -> v.s
    [] v.k = "number"    -> IntToStr(v.n)
    [] v.k = "NaN"       -> "NaN"
    [] v.k = "bigint"    -> (IF v.neg THEN "-" ELSE "") \o LimbsToStr(v.mag, TRUE)
    [] v.k = "boolean"   -> IF v.t THEN "true" ELSE "false"
    [] v.k = "null"      -> "null"
    [] v.k = "undefined" -> "undefined"
    [] v.k = "array"     -> JoinItems(v.items)
    [] v.k = "object"    -> "[object Object]"
    [] v.k = "tag"       -> "[object Object]"
    [] v.k = "map"       -> "[object Map]"

\* Array.prototype.join(","): null and undefined elements give ""
JoinItems(items) ==
  IF items = <<>> THEN ""
  ELSE LET h == IF Head(items).k \in {"null", "undefined"} THEN ""
                ELSE String(Head(items))
       IN  IF Len(items) = 1 THEN h ELSE h \o "," \o JoinItems(Tail(items))

\* the first pair of ent whose key is key, as a sequence of 0 or 1 values
RECURSIVE Lookup(_, _)
Lookup(ent, key) ==
  IF ent = <<>> THEN <<>>
  ELSE IF Head(ent)[1] = key THEN <<Head(ent)[2]>>
  ELSE Lookup(Tail(ent), key)

\* Map.prototype.get(key): keys are compared by value and type
MapGet(m, key) ==
  LET hit == Lookup(m.ent, key) IN IF hit = <<>> THEN Undefined ELSE hit[1]

\* v[name] / v.name for a value v that is neither null nor undefined;
\* name is the property key already converted to a string
GetProp(v, name) ==
  CASE v.k = "object" ->
         LET hit == Lookup(v.props, name)
         IN  IF hit = <<>> THEN Undefined ELSE hit[1]
    [] v.k = "tag" ->
         IF name = "tag" THEN Num(v.tag)
         ELSE IF name = "value" THEN v.value ELSE Undefined
    [] v.k = "array" ->
         LET idx == {i \in 1..Len(v.items) : IntToStr(i - 1) = name}
         IN  IF idx = {} THEN Undefined ELSE v.items[CHOOSE i \in idx : TRUE]
    [] v.k \in {"buffer", "u8"} ->
         LET idx == {i \in 1..Len(v.b) : IntToStr(i - 1) = name}
         IN  IF idx = {} THEN Undefined ELSE Num(v.b[CHOOSE i \in idx : TRUE])
    [] OTHER -> Undefined

\* Object.entries(v) as Map entries: every key is a string
ObjectEntries(v) ==
  CASE v.k = "object" ->
         [i \in 1..Len(v.props) |-> <<Str(v.props[i][1]), v.props[i][2]>>]
    [] v.k = "array" ->
         [i \in 1..Len(v.items) |-> <<Str(IntToStr(i - 1)), v.items[i]>>]
    [] v.k = "tag" -> << <<Str("value"), v.value>>, <<Str("tag"), Num(v.tag)>> >>
    [] OTHER -> <<>>

\* decode(bytes) of the external decoder: the value, or its exception
decode(buf) ==
  IF buf.dec.ok THEN Ok(buf.dec.val) ELSE Throw("Error", "CBOR decode error")

(***************************************************************************)
(* Field coercions.                                                        *)
(***************************************************************************)
\* new Date(s) for the timestamps the model uses; anything else is invalid
DateParse(s) ==
  CASE s = "1970-01-01T00:00:10Z" -> DateV(10000)
    [] s = "1970-01-01T00:01:00Z" -> DateV(60000)
    [] OTHER -> InvalidDate

parseDate(value) ==
  IF value.k = "date" THEN Ok(value)
  ELSE IF value.k = "string" THEN Ok(DateParse(value.s))
  ELSE IF value.k = "number" THEN Ok(DateV(value.n * 1000))
  ELSE IF value.k = "NaN" THEN Ok(InvalidDate)
  ELSE VICALParseError("Invalid date format: " \o TypeOf(value))

\* mag * m + c on four-digit groups, for naturals m and c
RECURSIVE MulAdd(_, _, _)
MulAdd(mag, m, c) ==
  IF mag = <<>> THEN (IF c = 0 THEN <<>> ELSE Limbs(c))
  ELSE LET t == mag[Len(mag)] * m + c
       IN  Append(MulAdd(SubSeq(mag, 1, Len(mag) - 1), m, t \div 10000),
                  t % 10000)

\* mutant: the bytes are taken least significant first
RECURSIVE BytesToBigIntLittleEndian(_, _)
BytesToBigIntLittleEndian(bytes, acc) ==
  IF bytes = <<>> THEN acc
  ELSE BytesToBigIntLittleEndian(SubSeq(bytes, 1, Len(bytes) - 1),
                                 MulAdd(acc, 256, bytes[Len(bytes)]))

\* result = (result << 8n) + BigInt(byte), over the bytes in order
RECURSIVE BytesToBigInt(_, _)
BytesToBigInt(bytes, acc) ==
  IF bytes = <<>> THEN acc
  ELSE BytesToBigInt(Tail(bytes), MulAdd(acc, 256, Head(bytes)))

parseBigInt(value) ==
  IF value.k = "bigint" THEN Ok(value)
  ELSE IF value.k = "number" THEN Ok(Big(value.n))
  ELSE IF value.k = "NaN"
  THEN Throw("RangeError", "The number NaN cannot be converted to a BigInt")
  ELSE IF IsByteLike(value)
  THEN Ok(BigInt(FALSE, BytesToBigInt(value.b, Limbs(0))))
  ELSE VICALParseError("Invalid bigint format: " \o TypeOf(value))

parseBuffer(value) ==
  IF value.k = "buffer" THEN Ok(value)
  ELSE IF value.k = "u8" THEN Ok(BufferFrom(value))
  ELSE VICALParseError("Invalid buffer format: " \o TypeOf(value))

parseStringArray(value) ==
  IF value.k # "array"
  THEN VICALParseError("Expected array, got " \o TypeOf(value))
  ELSE LET bad == {i \in 1..Len(value.items) : value.items[i].k # "string"}
       IN  IF bad # {}
           THEN LET i == CHOOSE x \in bad : \A y \in bad : x <= y
                IN  VICALParseError("Expected string at index " \o IntToStr(i - 1)
                        \o ", got " \o TypeOf(value.items[i]))
           ELSE Ok(value)

(***************************************************************************)
(* Certificate records.                                                    *)
(***************************************************************************)
\* a step that assigns an optional field: absent unless cond holds
Optional(cond, r) == IF cond THEN r ELSE Ok(Undefined)

parseCertificateInfo(data) ==
  IF data.k \in {"null", "undefined"}
  THEN Throw("TypeError", "Cannot read properties of " \o String(data)
               \o " (reading 'certificate')")
  ELSE
  LET certificate         == GetProp(data, "certificate")
      serialNumber        == GetProp(data, "serialNumber")
      ski                 == GetProp(data, "ski")
      docType             == GetProp(data, "docType")
      certificateProfile  == GetProp(data, "certificateProfile")
      issuingAuthority    == GetProp(data, "issuingAuthority")
      issuingCountry      == GetProp(data, "issuingCountry")
      stateOrProvinceName == GetProp(data, "stateOrProvinceName")
      issuer              == GetProp(data, "issuer")
      subject             == GetProp(data, "subject")
      notBefore           == GetProp(data, "notBefore")
      notAfter            == GetProp(data, "notAfter")
      extensions          == GetProp(data, "extensions")
      steps == <<
        IF ~ToBoolean(certificate)
        THEN VICALParseError("CertificateInfo missing required field: certificate")
        ELSE Ok(Undefined),
        IF serialNumber = Undefined
        THEN VICALParseError("CertificateInfo missing required field: serialNumber")
        ELSE Ok(Undefined),
        IF ~ToBoolean(ski)
        THEN VICALParseError("CertificateInfo missing required field: ski")
        ELSE Ok(Undefined),
        IF ~ToBoolean(docType)
        THEN VICALParseError("CertificateInfo missing required field: docType")
        ELSE Ok(Undefined),
        parseBuffer(certificate),
        parseBigInt(serialNumber),
        parseBuffer(ski),
        parseStringArray(docType),
        Optional(ToBoolean(certificateProfile), parseStringArray(certificateProfile)),
        Optional(issuingAuthority # Undefined, Ok(Str(String(issuingAuthority)))),
        Optional(issuingCountry # Undefined, Ok(Str(String(issuingCountry)))),
        Optional(stateOrProvinceName # Undefined, Ok(Str(String(stateOrProvinceName)))),
        Optional(ToBoolean(issuer), parseBuffer(issuer)),
        Optional(ToBoolean(subject), parseBuffer(subject)),
        Optional(notBefore # Undefined, parseDate(notBefore)),
        Optional(notAfter # Undefined, parseDate(notAfter)),
        Optional(ToBoolean(extensions), Ok(extensions)) >>
      certInfo(s) ==
              [certificate         |-> s[5].val,
               serialNumber        |-> s[6].val,
               ski                 |-> s[7].val,
               docType             |-> s[8].val,
               certificateProfile  |-> s[9].val,
               issuingAuthority    |-> s[10].val,
               issuingCountry      |-> s[11].val,
               stateOrProvinceName |-> s[12].val,
               issuer              |-> s[13].val,
               subject             |-> s[14].val,
               notBefore           |-> s[15].val,
               notAfter            |-> s[16].val,
               extensions          |-> s[17].val]
  IN  IF AllOk(steps) THEN Ok(certInfo(steps)) ELSE FirstThrow(steps)

(***************************************************************************)
(* The list payload.                                                       *)
(***************************************************************************)
\* the decimal integers Number(s) recognises in the model's strings
NumericRange == -200..200

\* the machine integer with the given four-digit groups (at most 9 digits)
RECURSIVE LimbsToInt(_, _)
LimbsToInt(mag, acc) ==
  IF mag = <<>> THEN acc ELSE LimbsToInt(Tail(mag), acc * 10000 + Head(mag))

\* Number(v)
Number(v) ==
  CASE v.k = "number"  -> v
    [] v.k = "NaN"     -> v
    [] v.k = "bigint"  -> Num((IF v.neg THEN -1 ELSE 1) * LimbsToInt(v.mag, 0))
    [] v.k = "boolean" -> IF v.t THEN Num(1) ELSE Num(0)
    [] v.k = "null"    -> Num(0)
    [] v.k = "string"  ->
         IF v.s = "" THEN Num(0)
         ELSE LET hit == {n \in NumericRange : IntToStr(n) = v.s}
              IN  IF hit = {} THEN NaN ELSE Num(CHOOSE n \in hit : TRUE)
    [] v.k = "array"   ->
         IF v.items = <<>> THEN Num(0)
         ELSE IF Len(v.items) = 1 /\ v.items[1].k = "number" THEN v.items[1]
         ELSE NaN
    [] OTHER -> NaN

\* mutant: each parsed record is put in front of the list instead of behind
RECURSIVE pushCertificateInfosInFront(_, _)
pushCertificateInfosInFront(items, acc) ==
  IF items = <<>> THEN Ok(acc)
  ELSE LET r == parseCertificateInfo(Head(items))
       IN  IF IsThrow(r) THEN r
           ELSE pushCertificateInfosInFront(Tail(items), <<r.val>> \o acc)

\* for (const certInfoData of data.certificateInfos) push(parseCertificateInfo(..))
RECURSIVE pushCertificateInfos(_, _)
pushCertificateInfos(items, acc) ==
  IF items = <<>> THEN Ok(acc)
  ELSE LET r == parseCertificateInfo(Head(items))
       IN  IF IsThrow(r) THEN r
           ELSE pushCertificateInfos(Tail(items), Append(acc, r.val))

parseVICALPayload(data) ==
  LET version          == GetProp(data, "version")
      vicalProvider    == GetProp(data, "vicalProvider")
      date             == GetProp(data, "date")
      certificateInfos == GetProp(data, "certificateInfos")
      vicalIssueID     == GetProp(data, "vicalIssueID")
      nextUpdate       == GetProp(data, "nextUpdate")
      extensions       == GetProp(data, "extensions")
      steps == <<
        IF ~ToBoolean(version)
        THEN VICALParseError("VICAL missing required field: version")
        ELSE Ok(Undefined),
        IF ~ToBoolean(vicalProvider)
        THEN VICALParseError("VICAL missing required field: vicalProvider")
        ELSE Ok(Undefined),
        IF ~ToBoolean(date)
        THEN VICALParseError("VICAL missing required field: date")
        ELSE Ok(Undefined),
        IF ~ToBoolean(certificateInfos)
        THEN VICALParseError("VICAL missing required field: certificateInfos")
        ELSE Ok(Undefined),
        Ok(Str(String(version))),
        Ok(Str(String(vicalProvider))),
        parseDate(date),
        Optional(vicalIssueID # Undefined, Ok(Number(vicalIssueID))),
        Optional(nextUpdate # Undefined, parseDate(nextUpdate)),
        Optional(ToBoolean(extensions), Ok(extensions)),
        IF certificateInfos.k # "array"
        THEN VICALParseError("certificateInfos must be an array")
        ELSE pushCertificateInfos(certificateInfos.items, <<>>) >>
      vical(s) ==
              [version          |-> s[5].val,
               vicalProvider    |-> s[6].val,
               date             |-> s[7].val,
               vicalIssueID     |-> s[8].val,
               nextUpdate       |-> s[9].val,
               extensions       |-> s[10].val,
               certificateInfos |-> s[11].val]
  IN  IF AllOk(steps) THEN Ok(vical(steps)) ELSE FirstThrow(steps)

(***************************************************************************)
(* The COSE_Sign1 envelope and its headers.                                *)
(***************************************************************************)
parseCoseSign1(data) ==
  IF data.k # "array" \/ Len(data.items) # 4
  THEN VICALParseError("Invalid COSE_Sign1 structure: expected array of 4 elements")
  ELSE
  LET protectedHeader   == data.items[1]
      unprotectedHeader == data.items[2]
      payload           == data.items[3]
      signature         == data.items[4]
      steps == <<
        parseBuffer(protectedHeader),
        Ok(IF unprotectedHeader.k = "map" THEN unprotectedHeader
           ELSE IF ToBoolean(unprotectedHeader)
                THEN MapV(ObjectEntries(unprotectedHeader))
                ELSE MapV(<<>>)),
        parseBuffer(payload),
        parseBuffer(signature) >>
      coseSign1(s) ==
              [protectedHeader   |-> s[1].val,
               unprotectedHeader |-> s[2].val,
               payload           |-> s[3].val,
               signature         |-> s[4].val]
  IN  IF AllOk(steps) THEN Ok(coseSign1(steps)) ELSE FirstThrow(steps)

\* lines 225-237: the algorithm held by the decoded protected header
algorithmOf(decoded) ==
  LET alg == IF decoded.k = "map" THEN MapGet(decoded, Num(COSE_HEADER.ALG))
             ELSE IF TypeOf(decoded) = "object" /\ decoded # Null
                  THEN GetProp(decoded, IntToStr(COSE_HEADER.ALG))
                  ELSE Undefined
  IN  IF alg = Undefined
      THEN VICALParseError("Algorithm not found in protected header")
      ELSE Ok(alg)

extractAlgorithm(protectedHeader) ==
  IF IsThrow(decode(protectedHeader)) THEN decode(protectedHeader)
  ELSE algorithmOf(decode(protectedHeader).val)

\* mutant: the first element of a chain is coerced with parseBuffer
extractSignerCertificateStrict(unprotectedHeader) ==
  LET x5chain == MapGet(unprotectedHeader, Num(COSE_HEADER.X5CHAIN))
  IN  IF ~ToBoolean(x5chain) THEN Ok(Undefined)
      ELSE IF IsByteLike(x5chain) THEN Ok(BufferFrom(x5chain))
      ELSE IF x5chain.k = "array" /\ Len(x5chain.items) > 0
           THEN parseBuffer(x5chain.items[1])
      ELSE Ok(Undefined)

extractSignerCertificate(unprotectedHeader) ==
  LET x5chain == MapGet(unprotectedHeader, Num(COSE_HEADER.X5CHAIN))
  IN  IF ~ToBoolean(x5chain) THEN Ok(Undefined)
      ELSE IF IsByteLike(x5chain) THEN Ok(BufferFrom(x5chain))
      ELSE IF x5chain.k = "array" /\ Len(x5chain.items) > 0
                /\ IsByteLike(x5chain.items[1])
           THEN Ok(BufferFrom(x5chain.items[1]))
      ELSE Ok(Undefined)

(***************************************************************************)
(* parseVICAL.                                                             *)
(***************************************************************************)
\* lines 284-297: the array that holds the four COSE_Sign1 elements
coseArray(decoded) ==
  IF decoded.k = "array" THEN Ok(decoded)
  ELSE IF TypeOf(decoded) = "object" /\ decoded # Null
  THEN IF GetProp(decoded, "tag") = Num(COSE_SIGN1_TAG)
            /\ GetProp(decoded, "value").k = "array"
       THEN Ok(GetProp(decoded, "value"))
       ELSE VICALParseError("Invalid COSE_Sign1: missing tag 18")
  ELSE VICALParseError("Invalid COSE_Sign1 format: " \o TypeOf(decoded))

\* a failure of the decoder is rethrown as a parse error with that message
decodeOr(buf, message) ==
  IF IsThrow(decode(buf)) THEN VICALParseError(message) ELSE decode(buf)

\* lines 316-321: the decoded payload must be an object
parseVICALData(vicalData) ==
  IF TypeOf(vicalData) # "object" \/ vicalData = Null
  THEN VICALParseError("Invalid VICAL payload: expected object")
  ELSE parseVICALPayload(vicalData)

parseVICAL(input) ==
  LET \* r, then Rest applied to what r returned unless r threw
      Then(r, Rest(_)) == IF IsThrow(r) THEN r ELSE Rest(r.val)
  IN
  Then(decodeOr(BufferFrom(input), "Failed to decode CBOR"), LAMBDA decoded :
  Then(coseArray(decoded), LAMBDA array :
  Then(parseCoseSign1(array), LAMBDA coseSign1 :
  Then(extractAlgorithm(coseSign1.protectedHeader), LAMBDA algorithm :
  Then(extractSignerCertificate(coseSign1.unprotectedHeader), LAMBDA signerCertificate :
  Then(decodeOr(coseSign1.payload, "Failed to decode VICAL payload"), LAMBDA vicalData :
  Then(parseVICALData(vicalData), LAMBDA vical :
    Ok([coseSign1         |-> coseSign1,
        vical             |-> vical,
        algorithm         |-> algorithm,
        signerCertificate |-> signerCertificate,
        rawBytes          |-> BufferFrom(input)]))))))))

(***************************************************************************)
(* Query / index layer over a parsed list.                                 *)
(***************************************************************************)
\* Array.prototype.includes(x)
Includes(arr, x) == \E i \in 1..Len(arr.items) : arr.items[i] = x

\* Array.prototype.filter(keep), keep(cert) being cert.docType.includes(docType)
RECURSIVE filterByDocTypeFrom(_, _)
filterByDocTypeFrom(certs, docType) ==
  IF certs = <<>> THEN <<>>
  ELSE IF Includes(Head(certs).docType, docType)
       THEN <<Head(certs)>> \o filterByDocTypeFrom(Tail(certs), docType)
       ELSE filterByDocTypeFrom(Tail(certs), docType)

\* mutant: only the first document type of a record is compared
filterByFirstDocType(vical, docType) ==
  SelectSeq(vical.certificateInfos,
            LAMBDA cert : Len(cert.docType.items) > 0 /\ cert.docType.items[1] = docType)

filterByDocType(vical, docType) ==
  filterByDocTypeFrom(vical.certificateInfos, docType)

filterMDLCertificates(vical) == filterByDocType(vical, Str(MDL_DOCTYPE))

\* Array.prototype.find: the first element that matches, or undefined
RECURSIVE findByCountryFrom(_, _)
findByCountryFrom(certs, countryCode) ==
  IF certs = <<>> THEN Undefined
  ELSE IF Head(certs).issuingCountry = countryCode THEN Head(certs)
  ELSE findByCountryFrom(Tail(certs), countryCode)

\* mutant: the search runs over the mDL certificates only
findByCountryAmongMDL(vical, countryCode) ==
  findByCountryFrom(filterByDocTypeFrom(vical.certificateInfos, Str(MDL_DOCTYPE)),
                    countryCode)

findByCountry(vical, countryCode) ==
  findByCountryFrom(vical.certificateInfos, countryCode)

RECURSIVE findBySKIFrom(_, _)
findBySKIFrom(certs, ski) ==
  IF certs = <<>> THEN Undefined
  ELSE IF Head(certs).ski.b = ski.b THEN Head(certs)
  ELSE findBySKIFrom(Tail(certs), ski)

\* mutant: a record matches when its ski starts with the given bytes
findBySKIByPrefix(vical, ski) ==
  LET certs == vical.certificateInfos
      S == {i \in 1..Len(certs) :
              /\ Len(certs[i].ski.b) >= Len(ski.b)
              /\ SubSeq(certs[i].ski.b, 1, Len(ski.b)) = ski.b}
  IN  IF S = {} THEN Undefined ELSE certs[CHOOSE i \in S : \A x \in S : i <= x]

findBySKI(vical, ski) == findBySKIFrom(vical.certificateInfos, ski)

\* mutant: an existing key keeps its value
MapSetIfAbsent(ent, key, val) ==
  IF \E i \in 1..Len(ent) : ent[i][1] = key THEN ent ELSE Append(ent, <<key, val>>)

\* Map.prototype.set(key, val): an existing key keeps its position
MapSet(ent, key, val) ==
  IF \E i \in 1..Len(ent) : ent[i][1] = key
  THEN [i \in 1..Len(ent) |-> IF ent[i][1] = key THEN <<key, val>> ELSE ent[i]]
  ELSE Append(ent, <<key, val>>)

RECURSIVE buildTrustAnchorsFrom(_, _, _)
buildTrustAnchorsFrom(certs, docType, anchors) ==
  IF certs = <<>> THEN anchors
  ELSE LET cert == Head(certs)
       IN  buildTrustAnchorsFrom(Tail(certs), docType,
             IF Includes(cert.docType, docType) /\ ToBoolean(cert.issuingCountry)
             THEN MapSet(anchors, cert.issuingCountry, cert)
             ELSE anchors)

\* mutant: the document type argument is ignored, the mDL type is always used
buildTrustAnchorsAlwaysMDL(vical, docType) ==
  buildTrustAnchorsFrom(vical.certificateInfos, Str(MDL_DOCTYPE), <<>>)

\* docType = Undefined stands for an omitted argument
buildTrustAnchors(vical, docType) ==
  buildTrustAnchorsFrom(vical.certificateInfos,
                        IF docType = Undefined THEN Str(MDL_DOCTYPE) ELSE docType,
                        <<>>)

(***************************************************************************)
(* Inputs: encoded lists in the manner of createMockVICAL, and the         *)
(* malformed variants of each part that a decoder can deliver.             *)
(***************************************************************************)
MaxRecords == 2

OTHER_DOCTYPE == "org.example.doctype"

IACA_CERTIFICATE_PROFILE == "1.0.18013.5.1.2"

\* an opaque byte string (never handed to decode)
Blob(b) == Buffer(b, DecodeError)

\* obj with property name set to val (added at the end when new)
With(obj, name, val) ==
  Obj(IF \E i \in 1..Len(obj.props) : obj.props[i][1] = name
      THEN [i \in 1..Len(obj.props) |->
              IF obj.props[i][1] = name THEN <<name, val>> ELSE obj.props[i]]
      ELSE Append(obj.props, <<name, val>>))

\* obj without property name
Without(obj, name) == Obj(SelectSeq(obj.props, LAMBDA e : e[1] # name))

mockCertKR == Blob(<<48, 1>>)

mockCertUS == Blob(<<48, 2>>)

mockCertDE == Blob(<<48, 3>>)

mockSignerCert == Blob(<<48, 255>>)

mockSignature == Blob(<<171, 171>>)

certInfoKR ==
  Obj(<< <<"certificate", mockCertKR>>,
         <<"serialNumber", Big(1234567890)>>,
         <<"ski", Blob(<<161, 178>>)>>,
         <<"docType", Arr(<<Str(MDL_DOCTYPE)>>)>>,
         <<"certificateProfile", Arr(<<Str(IACA_CERTIFICATE_PROFILE)>>)>>,
         <<"issuingAuthority", Str("Korean National Police Agency")>>,
         <<"issuingCountry", Str("KR")>>,
         <<"notBefore", DateV(10000)>>,
         <<"notAfter", DateV(60000)>> >>)

certInfoUS ==
  Obj(<< <<"certificate", mockCertUS>>,
         <<"serialNumber", Num(77)>>,
         <<"ski", Uint8Array(<<246, 229>>, DecodeError)>>,
         <<"docType", Arr(<<Str(OTHER_DOCTYPE), Str(MDL_DOCTYPE)>>)>>,
         <<"issuingAuthority", Str("California DMV")>>,
         <<"issuingCountry", Str("US-CA")>>,
         <<"stateOrProvinceName", Str("California")>> >>)

certInfoDE ==
  Obj(<< <<"certificate", mockCertDE>>,
         <<"serialNumber", Blob(<<1, 0>>)>>,
         <<"ski", Blob(<<17, 34>>)>>,
         <<"docType", Arr(<<Str(MDL_DOCTYPE)>>)>>,
         <<"issuingAuthority", Str("Kraftfahrt-Bundesamt")>> >>)

\* the elements a certificateInfos sequence is drawn from
CertInfoData ==
  { certInfoKR,
    \* a second record of the same jurisdiction
    With(With(With(certInfoKR, "serialNumber", Big(5555)), "ski", Blob(<<161>>)),
         "issuingAuthority", Str("KR second authority")),
    certInfoUS,
    \* a record of jurisdiction KR that does not support the mDL document type
    With(With(certInfoKR, "docType", Arr(<<Str(OTHER_DOCTYPE)>>)),
         "issuingAuthority", Str("KR other authority")),
    \* no jurisdiction, an empty one, one that differs in case only
    certInfoDE,
    With(certInfoDE, "issuingCountry", Str("")),
    With(certInfoDE, "issuingCountry", Str("kr")),
    \* a mandatory field missing
    Without(certInfoKR, "certificate"),
    Without(certInfoKR, "serialNumber"),
    Without(certInfoKR, "ski"),
    Without(certInfoKR, "docType"),
    \* a field of the wrong type
    With(certInfoKR, "docType", Arr(<<Str(MDL_DOCTYPE), Num(5)>>)),
    With(certInfoUS, "ski", Str("f6e5")),
    \* an element that is not a mapping
    Null,
    Num(5) }

SeqsUpTo(S, n) == UNION {[1..m -> S] : m \in 0..n}

vicalPayload(certificateInfos) ==
  Obj(<< <<"version", Str("1.0")>>,
         <<"vicalProvider", Str("Example VICAL Provider")>>,
         <<"date", DateV(10000)>>,
         <<"vicalIssueID", Num(157)>>,
         <<"nextUpdate", DateV(60000)>>,
         <<"certificateInfos", certificateInfos>> >>)

\* the fields of a payload object, each present with the given value or absent
PayloadOf(f) ==
  Obj(SelectSeq(<< <<"version", f.version>>,
                   <<"vicalProvider", f.vicalProvider>>,
                   <<"date", f.date>>,
                   <<"vicalIssueID", f.vicalIssueID>>,
                   <<"nextUpdate", f.nextUpdate>>,
                   <<"certificateInfos", f.certificateInfos>> >>,
                LAMBDA e : e[2] # Undefined))

\* payloads whose top-level fields vary
FieldPayloads ==
  { PayloadOf(f) : f \in
      [ version          : {Str("1.0"), Undefined, Num(1), Arr(<<>>)},
        vicalProvider    : {Str("Example VICAL Provider"), Undefined},
        date             : {DateV(10000), Undefined, Num(0), Num(10),
                            Str("1970-01-01T00:00:10Z"), Bool(TRUE)},
        vicalIssueID     : {Num(157), Undefined},
        nextUpdate       : {DateV(60000), Undefined, Bool(TRUE)},
        certificateInfos : {Undefined, Num(3), Arr(<<>>), Arr(<<certInfoKR>>),
                            Arr(<<certInfoUS, Null>>)} ] }

\* the longest serial number enumerated byte by byte
MaxSerialLen == 3

SerialByteValues == {0, 1, 255}

\* serial numbers of 8, 9 and 20 bytes
WideSerials ==
  { [i \in 1..8 |-> 255],
    [i \in 1..9 |-> IF i = 1 THEN 1 ELSE 0],
    [i \in 1..9 |-> i],
    [i \in 1..20 |-> 255],
    [i \in 1..20 |-> IF i \in {1, 2} THEN 0 ELSE 12 * i + 1],
    [i \in 1..20 |-> IF i = 1 THEN 128 ELSE 0] }

\* the encodings of a serial number: bytes, a machine integer, a BigInt, others
SerialNumbers ==
  { Blob(b) : b \in SeqsUpTo(SerialByteValues, MaxSerialLen) \cup WideSerials }
  \cup { Uint8Array(<<1, 0>>, DecodeError), Num(0), Num(256), Num(-5),
          Big(0), Big(-7), Str("1234"), Null, Bool(TRUE) }

\* payloads of one record whose serial number varies
SerialPayloads ==
  { vicalPayload(Arr(<<With(certInfoKR, "serialNumber", sn)>>)) :
      sn \in SerialNumbers }

\* the encodings of a date: a Date, epoch seconds, a timestamp string, others
DateValues ==
  { DateV(10000), Num(0), Num(10), Num(-1), Str("1970-01-01T00:00:10Z"),
    Str("1970-01-01T00:01:00Z"), Str("yesterday"), Str(""), Bool(TRUE),
    Bool(FALSE), Null, Arr(<<>>), Big(10) }

\* payloads in which one of the four date fields varies
DatePayloads ==
  { With(vicalPayload(Arr(<<certInfoKR>>)), f, v) :
      f \in {"date", "nextUpdate"}, v \in DateValues }
  \cup { vicalPayload(Arr(<<certInfoUS, With(certInfoKR, f, v)>>)) :
            f \in {"notBefore", "notAfter"}, v \in DateValues }

\* the shapes an encoder can give to version and vicalProvider
NameValues ==
  { Str("1.0"), Str(""), Num(1), Num(0), Bool(TRUE), Bool(FALSE), Null,
    Arr(<<>>), Arr(<<Null>>), Arr(<<Str("1"), Num(0)>>), Obj(<<>>),
    Obj(<< <<"major", Num(1)>> >>), MapV(<<>>) }

\* the shapes an encoder can give to vicalIssueID
IssueIDValues ==
  { Num(157), Num(0), Num(-3), Str("157"), Str("abc"), Str(""), Bool(TRUE),
    Bool(FALSE), Null, Arr(<<>>), Arr(<<Num(7)>>), Arr(<<Num(1), Num(2)>>),
    Obj(<<>>), Big(12) }

\* payloads in which version, vicalProvider or vicalIssueID varies
ScalarPayloads ==
  { With(vicalPayload(Arr(<<certInfoKR>>)), f, v) :
      f \in {"version", "vicalProvider"}, v \in NameValues }
  \cup { With(vicalPayload(Arr(<<certInfoKR>>)), "vicalIssueID", v) :
            v \in IssueIDValues }

\* values an encoder can put under issuer or subject
BlobValues ==
  { Blob(<<48, 9>>), Uint8Array(<<48, 9>>, DecodeError), Blob(<<>>), Num(0),
    Num(5), Str(""), Str("3009"), Bool(FALSE), Bool(TRUE), Null, Arr(<<>>) }

\* values an encoder can put under certificateProfile
ProfileValues ==
  { Arr(<<Str(IACA_CERTIFICATE_PROFILE)>>), Arr(<<>>),
    Arr(<<Str(IACA_CERTIFICATE_PROFILE), Num(5)>>), Arr(<<Null>>),
    Str(IACA_CERTIFICATE_PROFILE), Str(""), Num(0), Num(7), Bool(FALSE), Null,
    Obj(<<>>) }

\* payloads of two records in which an optional field of the second varies
OptionalPayloads ==
  { vicalPayload(Arr(<<certInfoUS, With(certInfoKR, f, v)>>)) :
      f \in {"issuer", "subject"}, v \in BlobValues }
  \cup { vicalPayload(Arr(<<certInfoUS, With(certInfoKR, "certificateProfile", v)>>)) :
            v \in ProfileValues }

\* records with two defects each
MultiDefectRecords ==
  { With(Without(certInfoKR, "ski"), "certificate", Str("3001")),
    With(With(certInfoKR, "ski", Num(5)), "serialNumber", Str("12")),
    With(With(certInfoKR, "notBefore", Bool(TRUE)), "issuer", Num(5)),
    With(With(certInfoKR, "certificateProfile", Num(7)), "docType", Str("mdl")),
    With(Without(certInfoKR, "docType"), "subject", Str("3001")) }

\* payloads with several defects: in one record, or in a record and above it
DefectPayloads ==
  { vicalPayload(Arr(<<certInfoUS, r>>)) : r \in MultiDefectRecords }
  \cup { With(vicalPayload(Arr(<<r, Null>>)), "nextUpdate", v) :
            r \in MultiDefectRecords, v \in {Null, Num(60)} }

\* payloads whose certificate records vary
ListPayloads ==
  { vicalPayload(Arr(certs)) : certs \in SeqsUpTo(CertInfoData, MaxRecords) }

\* decoded payloads that are not an object
OtherPayloads == { Null, Num(7), Str("vical"), Arr(<<>>), MapV(<<>>) }

\* payload bytes and what the decoder makes of them
payloadBytes(p) == Buffer(<<166>>, Decoded(p))

\* protected header: { 1: -7 }, as the decoder can deliver it, and variants
protectedHeaders ==
  { Buffer(<<161, 1, 38>>, Decoded(MapV(<< <<Num(1), Num(-7)>> >>))),
    Buffer(<<161, 1, 38>>, Decoded(Obj(<< <<"1", Num(-7)>> >>))),
    Buffer(<<161, 1, 56, 34>>, Decoded(Obj(<< <<"1", Num(-35)>> >>))),
    Uint8Array(<<161, 1, 56, 35>>, Decoded(MapV(<< <<Num(1), Num(-36)>> >>))),
    Buffer(<<162, 4, 65, 7, 1, 39>>,
           Decoded(MapV(<< <<Num(4), Blob(<<7>>)>>, <<Num(1), Num(-8)>> >>))),
    \* label 1 absent
    Buffer(<<161, 4, 65, 7>>, Decoded(MapV(<< <<Num(4), Blob(<<7>>)>> >>))),
    Buffer(<<160>>, Decoded(Obj(<<>>))),
    Buffer(<<161, 97, 49, 38>>, Decoded(MapV(<< <<Str("1"), Num(-7)>> >>))),
    \* not a mapping
    Buffer(<<5>>, Decoded(Num(5))),
    Buffer(<<246>>, Decoded(Null)),
    Buffer(<<130, 0, 38>>, Decoded(Arr(<<Num(0), Num(-7)>>))),
    Buffer(<<128>>, Decoded(Arr(<<>>))),
    \* not decodable, not bytes
    Buffer(<<24>>, DecodeError),
    Str("a10126") }

\* unprotected header: x5chain under label 33, and variants
unprotectedHeaders ==
  { MapV(<< <<Num(33), mockSignerCert>> >>),
    MapV(<< <<Num(33), Uint8Array(<<48, 254>>, DecodeError)>> >>),
    MapV(<< <<Num(33), Arr(<<mockSignerCert, mockCertKR>>)>> >>),
    MapV(<< <<Num(4), Blob(<<7>>)>>, <<Num(33), Arr(<<mockCertUS>>)>> >>),
    MapV(<< <<Num(33), Arr(<<>>)>> >>),
    MapV(<< <<Num(33), Arr(<<Str("cert"), mockSignerCert>>)>> >>),
    MapV(<< <<Num(33), Str("cert")>> >>),
    MapV(<< <<Num(33), Num(0)>> >>),
    MapV(<< <<Num(4), Blob(<<7>>)>> >>),
    MapV(<<>>),
    Obj(<< <<"33", mockSignerCert>> >>),
    Obj(<< <<"33", Arr(<<mockSignerCert>>)>> >>),
    Obj(<<>>),
    Null,
    Num(7) }

goodPayload == vicalPayload(Arr(<<certInfoKR, certInfoUS>>))

payloads ==
  { payloadBytes(goodPayload),
    payloadBytes(Without(goodPayload, "date")),
    Buffer(<<255>>, DecodeError),
    Str("payload") }

signatures == { mockSignature, Num(0) }

\* the four elements [protected, unprotected, payload, signature]
coseSign1Arrays ==
  { <<ph, uh, pl, sg>> : ph \in protectedHeaders, uh \in unprotectedHeaders,
                         pl \in payloads, sg \in signatures }

\* decoded top-level values built around those four elements
TopLevelOf(a) ==
  { TagV(COSE_SIGN1_TAG, Arr(a)),
    Arr(a),
    TagV(17, Arr(a)),
    Obj(<< <<"tag", Num(COSE_SIGN1_TAG)>>, <<"value", Arr(a)>> >>),
    Arr(SubSeq(a, 1, 3)),
    TagV(COSE_SIGN1_TAG, Arr(Append(a, Null))) }

\* decoded top-level values that hold no sequence
OtherTopLevels ==
  { TagV(COSE_SIGN1_TAG, Num(4)), TagV(COSE_SIGN1_TAG, mockSignature),
    TagV(COSE_SIGN1_TAG, Obj(<<>>)), Obj(<<>>), goodPayload, MapV(<<>>),
    Num(18), Str("vical"), Bool(TRUE), Null, Undefined, mockSignature }

taggedCoseSign1(p) ==
  TagV(COSE_SIGN1_TAG,
       Arr(<< Buffer(<<161, 1, 38>>, Decoded(Obj(<< <<"1", Num(-7)>> >>))),
              MapV(<< <<Num(33), mockSignerCert>> >>),
              p,
              mockSignature >>))

TopLevels ==
  (UNION { TopLevelOf(a) : a \in coseSign1Arrays })
  \cup OtherTopLevels
  \cup { taggedCoseSign1(payloadBytes(p)) :
           p \in FieldPayloads \cup ListPayloads \cup OtherPayloads
                   \cup SerialPayloads \cup DatePayloads
                   \cup ScalarPayloads \cup OptionalPayloads
                   \cup DefectPayloads }

\* the bytes handed to parseVICAL
Inputs ==
  { Buffer(<<216, 18>>, Decoded(top)) : top \in TopLevels }
  \cup { Buffer(<<216>>, DecodeError),
         Uint8Array(<<216, 18>>, Decoded(taggedCoseSign1(payloadBytes(goodPayload)))) }

(***************************************************************************)
(* The state machine: parse the bytes once, then query the parsed list.    *)
(***************************************************************************)
DocTypeArgs == { Str(MDL_DOCTYPE), Str(OTHER_DOCTYPE), Str("org.iso.18013.5.1.mdl") }

CountryArgs == { Str("KR"), Str("kr"), Str("US-CA"), Str("DE"), Str("") }

SKIArgs ==
  { Blob(<<161, 178>>), Blob(<<161>>), Blob(<<161, 178, 0>>), Blob(<<246, 229>>),
    Blob(<<>>) }

NoResult == [st |-> "none"]

NoQuery == [op |-> "none"]

Init ==
  /\ vicalBytes \in Inputs
  /\ pc = "ready"
  /\ result = NoResult
  /\ q = NoQuery

Parse ==
  /\ pc = "ready"
  /\ result' = parseVICAL(vicalBytes)
  /\ pc' = "parsed"
  /\ UNCHANGED <<vicalBytes, q>>

Parsed == pc = "parsed" /\ IsOk(result)

FilterByDocType ==
  /\ Parsed
  /\ \E d \in DocTypeArgs :
       q' = [op |-> "filterByDocType", arg |-> d,
             ret |-> filterByDocType(result.val.vical, d)]
  /\ UNCHANGED <<vicalBytes, pc, result>>

FilterMDLCertificates ==
  /\ Parsed
  /\ q' = [op |-> "filterMDLCertificates", arg |-> Undefined,
           ret |-> filterMDLCertificates(result.val.vical)]
  /\ UNCHANGED <<vicalBytes, pc, result>>

FindByCountry ==
  /\ Parsed
  /\ \E c \in CountryArgs :
       q' = [op |-> "findByCountry", arg |-> c,
             ret |-> findByCountry(result.val.vical, c)]
  /\ UNCHANGED <<vicalBytes, pc, result>>

FindBySKI ==
  /\ Parsed
  /\ \E b \in SKIArgs :
       q' = [op |-> "findBySKI", arg |-> b,
             ret |-> findBySKI(result.val.vical, b)]
  /\ UNCHANGED <<vicalBytes, pc, result>>

BuildTrustAnchors ==
  /\ Parsed
  /\ \E d \in DocTypeArgs \cup {Undefined} :
       q' = [op |-> "buildTrustAnchors", arg |-> d,
             ret |-> buildTrustAnchors(result.val.vical, d)]
  /\ UNCHANGED <<vicalBytes, pc, result>>

Next ==
  \/ Parse
  \/ FilterByDocType
  \/ FilterMDLCertificates
  \/ FindByCountry
  \/ FindBySKI
  \/ BuildTrustAnchors

Spec == Init /\ [][Next]_vars

TypeOK ==
  /\ pc \in {"ready", "parsed"}
  /\ result.st \in {"none", "ok", "throw"}
  /\ (pc = "ready") = (result = NoResult)

(***************************************************************************)
(* Properties.                                                             *)
(***************************************************************************)
\* the decoded top-level value, when the top-level decode succeeded
TopDecoded == vicalBytes.dec.ok

Top == vicalBytes.dec.val

\* the top-level value is a bare sequence of 4 elements, or tag 18 around one
IsEnvelope(top) ==
  \/ top.k = "array" /\ Len(top.items) = 4
  \/ top.k = "tag" /\ top.tag = 18 /\ top.value.k = "array"
       /\ Len(top.value.items) = 4

\* the parse reached the decoding of the protected header
HasEnvelope ==
  /\ TopDecoded
  /\ IsOk(coseArray(Top))
  /\ IsOk(parseCoseSign1(coseArray(Top).val))

CoseItems == coseArray(Top).val.items

\* the parse decoded the payload bytes: the decoded payload is PayloadValue
PayloadDecoded ==
  /\ HasEnvelope
  /\ IsOk(extractAlgorithm(CoseItems[1]))
  /\ IsOk(decode(CoseItems[3]))

PayloadValue == decode(CoseItems[3]).val

IsRecord(v) == v.k = "object"

Absent(obj, name) == GetProp(obj, name) = Undefined

TopLevelFields == {"version", "vicalProvider", "date", "certificateInfos"}

RecordFields == {"certificate", "serialNumber", "ski", "docType"}

\* some mandatory field is absent from the payload or from one of its records
MandatoryFieldAbsent(p) ==
  \/ \E f \in TopLevelFields : Absent(p, f)
  \/ /\ GetProp(p, "certificateInfos").k = "array"
     /\ \E i \in 1..Len(GetProp(p, "certificateInfos").items) :
          LET rec == GetProp(p, "certificateInfos").items[i]
          IN  IsRecord(rec) /\ \E f \in RecordFields : Absent(rec, f)

\* C1: a decoded payload that lacks a mandatory top-level field, or that has
\* a record lacking a mandatory field at any index, makes parseVICAL fail
\* with a parse error, whatever the other fields contain.
C1_MissingFieldIsParseError ==
  (pc = "parsed" /\ PayloadDecoded /\ IsRecord(PayloadValue)
     /\ MandatoryFieldAbsent(PayloadValue))
  => IsParseError(result)

EnvelopeMessages ==
  { "Invalid COSE_Sign1: missing tag 18",
    "Invalid COSE_Sign1 format: " \o TypeOf(Top),
    "Invalid COSE_Sign1 structure: expected array of 4 elements" }

\* C2: every decoded top-level value other than a bare sequence of 4
\* elements or a tag-18 value around a sequence of 4 elements is rejected
\* with a parse error at envelope recognition.
C2_OnlyEnvelopeShapesPass ==
  (pc = "parsed" /\ TopDecoded /\ ~IsEnvelope(Top))
  => (IsParseError(result) /\ result.message \in EnvelopeMessages)

\* C3: whenever parseVICAL does not return a SignedVICAL, what it throws is
\* a VICALParseError.
C3_OnlyParseErrors ==
  (pc = "parsed" /\ ~IsOk(result)) => IsParseError(result)

\* the encoded certificateInfos of a successfully parsed input
EncodedCertificateInfos ==
  GetProp(decode(result.val.coseSign1.payload).val, "certificateInfos")

\* C4: on success the parsed certificateInfos has the length of the encoded
\* sequence and its i-th record is the validated form of the i-th encoded
\* element; an empty encoded sequence is accepted as an empty list.
C4_RecordsPreserved ==
  /\ (pc = "parsed" /\ IsOk(result)) =>
       LET enc == EncodedCertificateInfos.items
           got == result.val.vical.certificateInfos
       IN  /\ Len(got) = Len(enc)
           /\ \A i \in 1..Len(enc) :
                /\ IsOk(parseCertificateInfo(enc[i]))
                /\ got[i] = parseCertificateInfo(enc[i]).val
                /\ got[i].certificate.b = GetProp(enc[i], "certificate").b
                /\ got[i].ski.b = GetProp(enc[i], "ski").b
  /\ (pc = "parsed" /\ IsThrow(result) /\ PayloadDecoded /\ IsRecord(PayloadValue)
        /\ GetProp(PayloadValue, "certificateInfos") = Arr(<<>>)) =>
       result.message \notin { "VICAL missing required field: certificateInfos",
                               "certificateInfos must be an array" }

C4_Witness ==
  /\ pc = "parsed" /\ IsOk(result)
  /\ Len(result.val.vical.certificateInfos) = 2
  /\ result.val.vical.certificateInfos[1] # result.val.vical.certificateInfos[2]
  /\ result.val.vical.certificateInfos[1].issuingCountry = Str("US-CA")

\* the value the input's unprotected header holds under label 33
X5ChainOf(header) ==
  IF header.k = "map" THEN MapGet(header, Num(33))
  ELSE IF header.k = "object" THEN GetProp(header, "33")
  ELSE Undefined

\* the certificate a chain value designates, as a sequence of 0 or 1 buffers
EndEntity(x5chain) ==
  IF IsByteLike(x5chain) THEN <<BufferFrom(x5chain)>>
  ELSE IF x5chain.k = "array" /\ Len(x5chain.items) > 0
            /\ IsByteLike(x5chain.items[1])
       THEN <<BufferFrom(x5chain.items[1])>>
       ELSE <<>>

\* C5: signerCertificate is the bytes the chain under label 33 designates,
\* for a native mapping and for an object-like header alike.
C5_SignerCertificateExtracted ==
  (pc = "parsed" /\ IsOk(result) /\ EndEntity(X5ChainOf(CoseItems[2])) # <<>>)
  => result.val.signerCertificate = EndEntity(X5ChainOf(CoseItems[2]))[1]

\* the input has four envelope elements, so an unprotected header
HasHeader == TopDecoded /\ IsOk(coseArray(Top)) /\ Len(CoseItems) = 4

\* header without its label 33
RemoveX5Chain(header) ==
  IF header.k = "map"
  THEN MapV(SelectSeq(header.ent, LAMBDA e : e[1] # Num(33)))
  ELSE IF header.k = "object" THEN Without(header, "33")
  ELSE header

\* top with the unprotected header of its envelope replaced by h
ReplaceHeader(top, h) ==
  IF top.k = "array" THEN Arr([top.items EXCEPT ![2] = h])
  ELSE IF top.k = "tag" THEN TagV(top.tag, Arr([top.value.items EXCEPT ![2] = h]))
  ELSE With(top, "value", Arr([CoseItems EXCEPT ![2] = h]))

\* the same input without label 33
WithoutX5Chain ==
  [vicalBytes EXCEPT !.dec.val = ReplaceHeader(Top, RemoveX5Chain(CoseItems[2]))]

\* what a caller observes of a parse, the envelope copy aside
Outcome(r) ==
  IF IsOk(r)
  THEN [st |-> "ok", vical |-> r.val.vical, algorithm |-> r.val.algorithm,
        signerCertificate |-> r.val.signerCertificate]
  ELSE r

OutcomeButSigner(r) ==
  IF IsOk(r)
  THEN [st |-> "ok", vical |-> r.val.vical, algorithm |-> r.val.algorithm]
  ELSE r

\* C6: the value under label 33 never makes the parse fail; when it
\* designates no certificate (absent, empty sequence, first element or value
\* not byte-like) signerCertificate is absent and the outcome is that of the
\* same input without label 33.
C6_SignerCertificateNeverFails ==
  (pc = "parsed" /\ HasHeader) =>
    /\ OutcomeButSigner(result) = OutcomeButSigner(parseVICAL(WithoutX5Chain))
    /\ EndEntity(X5ChainOf(CoseItems[2])) = <<>> =>
         /\ IsOk(result) => result.val.signerCertificate = Undefined
         /\ Outcome(result) = Outcome(parseVICAL(WithoutX5Chain))

C6_Witness ==
  /\ pc = "parsed" /\ IsOk(result) /\ HasHeader
  /\ X5ChainOf(CoseItems[2]) = Arr(<<Str("cert"), mockSignerCert>>)
  /\ result.val.signerCertificate = Undefined

\* the decoded protected header of an input whose envelope was unwrapped
ProtectedDecoded == HasEnvelope /\ IsOk(decode(CoseItems[1]))

ProtectedValue == decode(CoseItems[1]).val

\* the value a decoded header holds under label 1, as 0 or 1 values
AlgLabel(h) ==
  IF h.k = "map" THEN Lookup(h.ent, Num(1))
  ELSE IF h.k = "object" THEN Lookup(h.props, "1")
  ELSE <<>>

\* C7: a protected header that decodes to a mapping or object holding
\* label 1 gives algorithm = that value; one that lacks label 1 or is
\* neither a mapping nor an object makes parseVICAL fail with a parse error.
C7_AlgorithmExtracted ==
  (pc = "parsed" /\ ProtectedDecoded) =>
    IF AlgLabel(ProtectedValue) # <<>>
    THEN IsOk(result) => result.val.algorithm = AlgLabel(ProtectedValue)[1]
    ELSE IsParseError(result)

\* the certificates of the parsed list, and the document type a query used
Certs == result.val.vical.certificateInfos

Supports(cert, d) == \E i \in 1..Len(cert.docType.items) : cert.docType.items[i] = d

\* C8: buildTrustAnchors is last-write-wins per jurisdiction code; records
\* that do not support the document type or have no (or an empty)
\* issuingCountry add nothing; an omitted docType means the mDL type.
C8_LastWriteWins ==
  q.op = "buildTrustAnchors" =>
    LET d == IF q.arg = Undefined THEN Str("org.iso.18013.5.1.mDL") ELSE q.arg
        m == q.ret
        keys == {Certs[i].issuingCountry : i \in 1..Len(Certs)}
                  \cup {m[j][1] : j \in 1..Len(m)} \cup CountryArgs
    IN  \A k \in keys :
          LET S == {i \in 1..Len(Certs) :
                      /\ Supports(Certs[i], d)
                      /\ Certs[i].issuingCountry = k
                      /\ k.k = "string" /\ k.s # ""}
              E == {j \in 1..Len(m) : m[j][1] = k}
          IN  IF S = {} THEN E = {}
              ELSE /\ Cardinality(E) = 1
                   /\ \A j \in E : m[j][2] = Certs[CHOOSE i \in S : \A x \in S : x <= i]

C8_Witness ==
  /\ q.op = "buildTrustAnchors" /\ q.arg = Undefined
  /\ Len(Certs) = 2
  /\ Certs[1] # Certs[2]
  /\ Certs[1].issuingCountry = Str("KR") /\ Certs[2].issuingCountry = Str("KR")
  /\ Supports(Certs[1], Str(MDL_DOCTYPE)) /\ Supports(Certs[2], Str(MDL_DOCTYPE))
  /\ q.ret = << <<Str("KR"), Certs[2]>> >>

\* C9: filterByDocType returns exactly the records whose docType contains d,
\* in list order with multiplicity (empty list: empty result), and
\* filterMDLCertificates is filterByDocType for "org.iso.18013.5.1.mDL".
C9_FilterIsSubsequence ==
  /\ q.op = "filterByDocType" =>
       /\ q.ret = SelectSeq(Certs, LAMBDA c : Supports(c, q.arg))
       /\ Certs = <<>> => q.ret = <<>>
  /\ q.op = "filterMDLCertificates" =>
       q.ret = SelectSeq(Certs, LAMBDA c : Supports(c, Str("org.iso.18013.5.1.mDL")))

C9_Witness ==
  /\ q.op = "filterByDocType" /\ q.arg = Str(MDL_DOCTYPE)
  /\ Len(Certs) = 2
  /\ ~Supports(Certs[1], q.arg)
  /\ Certs[2].docType = Arr(<<Str(OTHER_DOCTYPE), Str(MDL_DOCTYPE)>>)
  /\ q.ret = <<Certs[2]>>

\* C10: findByCountry returns the record of smallest index whose
\* issuingCountry equals the code exactly, whatever its document types, and
\* nothing when no record has that issuingCountry.
C10_FirstByCountry ==
  q.op = "findByCountry" =>
    LET S == {i \in 1..Len(Certs) : Certs[i].issuingCountry = q.arg}
    IN  IF S = {} THEN q.ret = Undefined
        ELSE q.ret = Certs[CHOOSE i \in S : \A x \in S : i <= x]

C10_Witness ==
  /\ q.op = "findByCountry" /\ q.arg = Str("KR")
  /\ Len(Certs) = 2
  /\ Certs[1].issuingCountry = Str("KR") /\ Certs[2].issuingCountry = Str("KR")
  /\ ~Supports(Certs[1], Str(MDL_DOCTYPE))
  /\ Certs[1] # Certs[2]
  /\ q.ret = Certs[1]

\* C11: findBySKI returns the record of smallest index whose ski has the same
\* length and the same bytes as the given byte string, and nothing when no
\* record has (a proper prefix or an extension of a ski does not match).
SameBytes(a, b) ==
  /\ Len(a) = Len(b)
  /\ \A j \in 1..Len(a) : a[j] = b[j]

C11_FirstBySKI ==
  q.op = "findBySKI" =>
    LET S == {i \in 1..Len(Certs) : SameBytes(Certs[i].ski.b, q.arg.b)}
    IN  IF S = {} THEN q.ret = Undefined
        ELSE q.ret = Certs[CHOOSE i \in S : \A x \in S : i <= x]

\* the given bytes are a proper prefix of the first record's ski and equal to
\* the second record's: the second record is returned
C11_Witness ==
  /\ q.op = "findBySKI" /\ q.arg.b = <<161>>
  /\ Len(Certs) = 2
  /\ Certs[1].ski.b = <<161, 178>>
  /\ Certs[2].ski.b = <<161>>
  /\ q.ret = Certs[2]

\* long division of four-digit groups by d: <<quotient groups, remainder>>
RECURSIVE LongDiv(_, _, _, _)
LongDiv(mag, d, rem, quot) ==
  IF mag = <<>> THEN <<quot, rem>>
  ELSE LET t == rem * 10000 + Head(mag)
       IN  LongDiv(Tail(mag), d, t % d, Append(quot, t \div d))

RECURSIVE StripZeros(_)
StripZeros(seq) ==
  IF seq = <<>> THEN <<>>
  ELSE IF Head(seq) = 0 THEN StripZeros(Tail(seq)) ELSE seq

\* the base-256 digits of a number in four-digit groups, most significant first
RECURSIVE BytesOf(_)
BytesOf(mag) ==
  LET z == StripZeros(mag)
  IN  IF z = <<>> THEN <<>>
      ELSE LET dm == LongDiv(z, 256, 0, <<>>)
           IN  Append(BytesOf(dm[1]), dm[2])

\* the sum of b[i] * 256^(n-i), for sequences short enough for a machine integer
RECURSIVE BigEndianSum(_, _)
BigEndianSum(b, i) ==
  IF i > Len(b) THEN 0 ELSE b[i] * 256 ^ (Len(b) - i) + BigEndianSum(b, i + 1)

IsDecimal(mag) ==
  /\ Len(mag) >= 1
  /\ \A j \in 1..Len(mag) : mag[j] \in 0..9999
  /\ Len(mag) > 1 => mag[1] # 0

\* C12: a serial number encoded as the bytes b[0..n-1] is coerced to the
\* big-endian unsigned sum of b[i] * 256^(n-1-i), without truncation to 64 bits
\* for up to 20 bytes: 0x01 0x00 gives 256, leading zero bytes change
\* nothing, and no bytes give 0.
C12_BigEndianSerial ==
  (pc = "parsed" /\ IsOk(result)) =>
    \A i \in 1..Len(Certs) :
      LET sn == GetProp(EncodedCertificateInfos.items[i], "serialNumber")
          out == Certs[i].serialNumber
      IN  IsByteLike(sn) =>
            /\ out.k = "bigint" /\ ~out.neg /\ IsDecimal(out.mag)
            /\ BytesOf(out.mag) = StripZeros(sn.b)
            /\ Len(sn.b) <= 3 => out.mag = Limbs(BigEndianSum(sn.b, 1))
            /\ sn.b = <<1, 0>> => out.mag = <<256>>
            /\ sn.b = <<>> => out.mag = <<0>>
            \* 2^64 and 2^160 - 1
            /\ sn.b = [j \in 1..9 |-> IF j = 1 THEN 1 ELSE 0] =>
                 out.mag = <<1844, 6744, 737, 955, 1616>>
            /\ sn.b = [j \in 1..20 |-> 255] =>
                 out.mag = <<1, 4615, 163, 7330, 9029, 1820, 3684, 8327, 1628,
                             3019, 6559, 3254, 2975>>

\* a serial number of 20 bytes came out as a number of 49 decimal digits
\* (13 groups of four)
C12_Witness ==
  /\ pc = "parsed" /\ IsOk(result)
  /\ Len(Certs) = 1
  /\ GetProp(EncodedCertificateInfos.items[1], "serialNumber")
       = Blob([j \in 1..20 |-> 255])
  /\ Len(Certs[1].serialNumber.mag) = 13
  /\ q = NoQuery

\* C15: the serialNumber of every parsed record is a non-negative integer,
\* whether it was encoded as a BigInt, a machine integer or a byte sequence.
C15_SerialNonNegative ==
  (pc = "parsed" /\ IsOk(result)) =>
    \A i \in 1..Len(Certs) :
      /\ Certs[i].serialNumber.k = "bigint"
      /\ ~Certs[i].serialNumber.neg

\* the date fields of the decoded payload: <<encoded value, parsed value>>;
\* the parsed values are read only when the parse succeeded
DateFields(p) ==
  { <<GetProp(p, "date"), "date">>, <<GetProp(p, "nextUpdate"), "nextUpdate">> }
  \cup (IF GetProp(p, "certificateInfos").k = "array"
        THEN UNION { { <<GetProp(rec, "notBefore"), "notBefore">>,
                       <<GetProp(rec, "notAfter"), "notAfter">> } :
                     rec \in { r \in { GetProp(p, "certificateInfos").items[i] :
                                        i \in 1..Len(GetProp(p, "certificateInfos").items) } :
                                IsRecord(r) } }
        ELSE {})

\* what the date coercion is to make of a present value of a date type
DateOf(v) ==
  CASE v.k = "date" -> v
    [] v.k = "number" -> DateV(v.n * 1000)
    [] v = Str("1970-01-01T00:00:10Z") -> DateV(10000)
    [] v = Str("1970-01-01T00:01:00Z") -> DateV(60000)

IsDateType(v) ==
  \/ v.k \in {"date", "number"}
  \/ v \in {Str("1970-01-01T00:00:10Z"), Str("1970-01-01T00:01:00Z")}

\* C13: the date coercion of date, nextUpdate, notBefore and notAfter returns
\* a native date unchanged, parses a string as an RFC-3339 timestamp and reads
\* a number n as n seconds since the epoch, for every n including 0; a
\* present value of another type makes parseVICAL fail with a parse error.
C13_DateCoercion ==
  (pc = "parsed" /\ PayloadDecoded /\ IsRecord(PayloadValue)) =>
    LET p == PayloadValue
        enc == GetProp(p, "certificateInfos")
    IN  \* a present value of a date type is never reported missing, and an
        \* invalid date is reported only for a present value of another type
        /\ IsThrow(result) =>
              /\ \A e \in DateFields(p) :
                   IsDateType(e[1]) =>
                     result.message # "VICAL missing required field: " \o e[2]
              /\ \A t \in {"undefined", "object", "boolean", "number", "bigint",
                            "string"} :
                   result.message = "Invalid date format: " \o t =>
                     \E e \in DateFields(p) :
                       /\ e[1] # Undefined
                       /\ e[1].k \notin {"date", "string", "number"}
                       /\ TypeOf(e[1]) = t
        \* on success every present date field holds the coerced value
        /\ IsOk(result) =>
              /\ IsDateType(GetProp(p, "date")) =>
                   result.val.vical.date = DateOf(GetProp(p, "date"))
              /\ IsDateType(GetProp(p, "nextUpdate")) =>
                   result.val.vical.nextUpdate = DateOf(GetProp(p, "nextUpdate"))
              /\ \A i \in 1..Len(Certs) :
                   /\ IsDateType(GetProp(enc.items[i], "notBefore")) =>
                        Certs[i].notBefore = DateOf(GetProp(enc.items[i], "notBefore"))
                   /\ IsDateType(GetProp(enc.items[i], "notAfter")) =>
                        Certs[i].notAfter = DateOf(GetProp(enc.items[i], "notAfter"))
        \* a present value of any other type is a parse error
        /\ \A e \in DateFields(p) :
              (e[1] # Undefined /\ e[1].k \notin {"date", "string", "number"}) =>
                 IsParseError(result)

\* C14: in every returned SignedVICAL, version and vicalProvider are
\* non-empty strings, whatever the shape of their encoded values (string,
\* number, boolean, sequence, mapping).
C14_NamesNonEmpty ==
  (pc = "parsed" /\ IsOk(result)) =>
    /\ result.val.vical.version.k = "string"
    /\ result.val.vical.version.s # ""
    /\ result.val.vical.vicalProvider.k = "string"
    /\ result.val.vical.vicalProvider.s # ""

\* C18: the parsed vicalIssueID is absent exactly when the encoded payload
\* has no vicalIssueID, and is an integer whenever it is present, whatever
\* the shape of the encoded value (number, string, boolean, null, sequence).
C18_IssueIDInteger ==
  (pc = "parsed" /\ IsOk(result)) =>
    LET enc == GetProp(decode(result.val.coseSign1.payload).val, "vicalIssueID")
        out == result.val.vical.vicalIssueID
    IN  /\ (out = Undefined) <=> (enc = Undefined)
        /\ out # Undefined => out.k = "number"

\* the encoded records of a decoded payload that are mappings
EncodedRecords(p) ==
  IF GetProp(p, "certificateInfos").k = "array"
  THEN { r \in { GetProp(p, "certificateInfos").items[i] :
                   i \in 1..Len(GetProp(p, "certificateInfos").items) } :
         IsRecord(r) }
  ELSE {}

IsStringSequence(v) ==
  v.k = "array" /\ \A j \in 1..Len(v.items) : v.items[j].k = "string"

\* C17: a record's optional field that is present with a value of the wrong
\* type makes parseVICAL fail with a parse error instead of being dropped:
\* issuer or subject that is not byte-like, certificateProfile that is not a
\* sequence of strings (a non-string element is reported with its index),
\* also when the value is 0, the empty string, false or null.
C17_OptionalFieldsChecked ==
  (pc = "parsed" /\ PayloadDecoded /\ IsRecord(PayloadValue)) =>
    \A rec \in EncodedRecords(PayloadValue) :
      /\ \A f \in {"issuer", "subject"} :
           (~Absent(rec, f) /\ ~IsByteLike(GetProp(rec, f))) => IsParseError(result)
      /\ (~Absent(rec, "certificateProfile")
            /\ ~IsStringSequence(GetProp(rec, "certificateProfile"))) =>
           IsParseError(result)
      /\ (rec = With(certInfoKR, "certificateProfile",
                     Arr(<<Str(IACA_CERTIFICATE_PROFILE), Num(5)>>))) =>
           result.message = "Expected string at index 1, got number"

\* C19: for m = buildTrustAnchors(list, d): every value of m is an element
\* of filterByDocType(list, d); every entry (k, c) has a non-empty k and
\* c.issuingCountry = k; the keys of m are exactly the non-empty
\* issuingCountry values of filterByDocType(list, d); and when every
\* jurisdiction code occurs in at most one record of the list,
\* m.get(k) = findByCountry(list, k) for every key k.
C19_AnchorsAgreeWithQueries ==
  q.op = "buildTrustAnchors" =>
    LET d == IF q.arg = Undefined THEN Str(MDL_DOCTYPE) ELSE q.arg
        m == q.ret
        F == filterByDocType(result.val.vical, d)
        codes == {F[i].issuingCountry : i \in 1..Len(F)}
        unique == \A i, j \in 1..Len(Certs) :
                    (i # j /\ Certs[i].issuingCountry # Undefined) =>
                      Certs[i].issuingCountry # Certs[j].issuingCountry
    IN  /\ \A j \in 1..Len(m) : \E i \in 1..Len(F) : F[i] = m[j][2]
        /\ \A j \in 1..Len(m) :
              /\ m[j][1].k = "string" /\ m[j][1].s # ""
              /\ m[j][2].issuingCountry = m[j][1]
        /\ {m[j][1] : j \in 1..Len(m)}
              = {c \in codes : c # Undefined /\ c # Str("")}
        /\ unique =>
              \A j \in 1..Len(m) :
                MapGet(MapV(m), m[j][1]) = findByCountry(result.val.vical, m[j][1])

\* two records of different jurisdictions, one of them not supporting the
\* requested document type: one anchor, the record findByCountry finds
C19_Witness ==
  /\ q.op = "buildTrustAnchors" /\ q.arg = Str(OTHER_DOCTYPE)
  /\ Len(Certs) = 2
  /\ Certs[1].issuingCountry = Str("KR") /\ ~Supports(Certs[1], q.arg)
  /\ Certs[2].issuingCountry = Str("US-CA") /\ Supports(Certs[2], q.arg)
  /\ q.ret = << <<Str("US-CA"), Certs[2]>> >>

\* a check that finds nothing wrong
Pass == Ok(Undefined)

\* a check that fails with a parse error of that message when defect holds
Check(defect, message) == IF defect THEN VICALParseError(message) ELSE Pass

\* the four elements of the envelope, when the top-level value holds four
EnvelopeItems ==
  IF TopDecoded /\ IsOk(coseArray(Top)) /\ Len(coseArray(Top).val.items) = 4
  THEN coseArray(Top).val.items
  ELSE <<Undefined, Undefined, Undefined, Undefined>>

\* the checks on the envelope, in the order of the claim, each on its own
EnvelopeChecks ==
  << \* top-level decode
     Check(~TopDecoded, "Failed to decode CBOR"),
     \* envelope shape
     IF TopDecoded THEN coseArray(Top) ELSE Pass,
     Check(TopDecoded /\ IsOk(coseArray(Top)) /\ Len(coseArray(Top).val.items) # 4,
           "Invalid COSE_Sign1 structure: expected array of 4 elements"),
     \* byte coercion of protected header, payload, signature
     parseBuffer(EnvelopeItems[1]),
     parseBuffer(EnvelopeItems[3]),
     parseBuffer(EnvelopeItems[4]),
     \* algorithm extraction
     IF IsByteLike(EnvelopeItems[1]) THEN extractAlgorithm(EnvelopeItems[1])
     ELSE Pass,
     \* payload decode
     Check(IsByteLike(EnvelopeItems[3]) /\ ~EnvelopeItems[3].dec.ok,
           "Failed to decode VICAL payload") >>

\* the decoded payload, when the payload bytes decode
EnvelopePayload ==
  IF IsByteLike(EnvelopeItems[3]) /\ EnvelopeItems[3].dec.ok
  THEN EnvelopeItems[3].dec.val
  ELSE Obj(<<>>)

\* the checks on the decoded payload p, in the order of the claim; a presence
\* check is the test the code makes (the field is falsy)
PayloadChecks(p) ==
  << \* payload is a mapping or object
     Check(TypeOf(p) # "object" \/ p = Null,
           "Invalid VICAL payload: expected object"),
     \* presence of version, vicalProvider, date, certificateInfos
     Check(~ToBoolean(GetProp(p, "version")),
           "VICAL missing required field: version"),
     Check(~ToBoolean(GetProp(p, "vicalProvider")),
           "VICAL missing required field: vicalProvider"),
     Check(~ToBoolean(GetProp(p, "date")), "VICAL missing required field: date"),
     Check(~ToBoolean(GetProp(p, "certificateInfos")),
           "VICAL missing required field: certificateInfos"),
     \* date coercion, nextUpdate coercion
     parseDate(GetProp(p, "date")),
     IF GetProp(p, "nextUpdate") # Undefined
     THEN parseDate(GetProp(p, "nextUpdate")) ELSE Pass,
     \* certificateInfos is a sequence
     Check(GetProp(p, "certificateInfos").k # "array",
           "certificateInfos must be an array") >>

\* the checks on one record, in the order of the claim
RecordChecks(rec) ==
  IF rec.k \in {"null", "undefined"}
  THEN << Throw("TypeError", "Cannot read properties of " \o String(rec)
                  \o " (reading 'certificate')") >>
  ELSE
  << \* presence of certificate, serialNumber, ski, docType
     Check(~ToBoolean(GetProp(rec, "certificate")),
           "CertificateInfo missing required field: certificate"),
     Check(GetProp(rec, "serialNumber") = Undefined,
           "CertificateInfo missing required field: serialNumber"),
     Check(~ToBoolean(GetProp(rec, "ski")),
           "CertificateInfo missing required field: ski"),
     Check(~ToBoolean(GetProp(rec, "docType")),
           "CertificateInfo missing required field: docType"),
     \* their coercions
     parseBuffer(GetProp(rec, "certificate")),
     parseBigInt(GetProp(rec, "serialNumber")),
     parseBuffer(GetProp(rec, "ski")),
     parseStringArray(GetProp(rec, "docType")),
     \* optional fields
     IF ToBoolean(GetProp(rec, "certificateProfile"))
     THEN parseStringArray(GetProp(rec, "certificateProfile")) ELSE Pass,
     IF ToBoolean(GetProp(rec, "issuer"))
     THEN parseBuffer(GetProp(rec, "issuer")) ELSE Pass,
     IF ToBoolean(GetProp(rec, "subject"))
     THEN parseBuffer(GetProp(rec, "subject")) ELSE Pass,
     IF GetProp(rec, "notBefore") # Undefined
     THEN parseDate(GetProp(rec, "notBefore")) ELSE Pass,
     IF GetProp(rec, "notAfter") # Undefined
     THEN parseDate(GetProp(rec, "notAfter")) ELSE Pass >>

\* the checks on the records, in list order
RECURSIVE RecordsChecks(_)
RecordsChecks(items) ==
  IF items = <<>> THEN <<>>
  ELSE RecordChecks(Head(items)) \o RecordsChecks(Tail(items))

\* every check of the parse, in the order of the claim
AllChecks ==
  EnvelopeChecks \o PayloadChecks(EnvelopePayload)
    \o (IF GetProp(EnvelopePayload, "certificateInfos").k = "array"
        THEN RecordsChecks(GetProp(EnvelopePayload, "certificateInfos").items)
        ELSE <<>>)

Failing(checks) == {i \in 1..Len(checks) : IsThrow(checks[i])}

\* C16: parseVICAL validates in one fixed order (top-level decode, envelope
\* shape, byte coercion of protected header, payload and signature, algorithm
\* extraction, payload decode, payload is an object, presence of version,
\* vicalProvider, date and certificateInfos, date coercion, nextUpdate
\* coercion, certificateInfos is a sequence, then the records in list order:
\* presence of certificate, serialNumber, ski and docType, their coercions,
\* the optional fields) and reports the error of the earliest failing check;
\* it succeeds only when no check fails.
C16_EarliestErrorReported ==
  pc = "parsed" =>
    LET bad == Failing(AllChecks)
    IN  IF bad = {} THEN IsOk(result)
        ELSE result = AllChecks[CHOOSE i \in bad : \A j \in bad : i <= j]

\* several defects at once: a signature that is not bytes and a payload
\* without date, after a valid protected header; the signature is reported
C16_Witness ==
  /\ pc = "parsed"
  /\ Cardinality(Failing(AllChecks)) >= 2
  /\ IsThrow(AllChecks[6])
  /\ IsThrow(PayloadChecks(EnvelopePayload)[4])
  /\ result = VICALParseError("Invalid buffer format: number")

====
